---- MODULE Spec2Model ----
(***************************************************************************)
(* Model of ironfish-rust-nodejs/src/structs/transaction.rs: the napi      *)
(* bindings NativeTransaction (builder), NativeUnsignedTransaction,        *)
(* NativeTransactionPosted and verify_transactions.                        *)
(*                                                                         *)
(* The bindings delegate to the ironfish core crate (ProposedTransaction,  *)
(* UnsignedTransaction, Transaction, the FROST helpers, hex decoding).     *)
(* Those are modelled from the specification text; the operators named     *)
(* after the binding methods are translated from the binding source.       *)
(***************************************************************************)
EXTENDS Integers, Sequences, FiniteSets, TLC

VARIABLES
    proposed,   \* Option<NativeTransaction>: the builder object, <<>> once dropped
    unsigned,   \* Option<NativeUnsignedTransaction>
    package,    \* Option<String>: the last signing package handed to the caller
    posted,     \* Option<NativeTransactionPosted>
    res,        \* the last call: [op, status, err, out, args]
    origin      \* history: the call whose bytes the live object was read from

vars == <<proposed, unsigned, package, posted, res, origin>>

---------------------------------------------------------------------------
(* Bounds of the model *)

MaxActions == 2        \* spend/output/mint/burn calls made on one builder
MaxBatch == 2          \* longest list given to verify_transactions
MaxParticipants == 2   \* most entries in a commitment or share map

---------------------------------------------------------------------------
(* Values *)

None == <<>>
Some(x) == <<x>>

NATIVE_ASSET == "native"
Assets == {NATIVE_ASSET, "A"}
AssetOrder == <<NATIVE_ASSET, "A">>

LATEST_TRANSACTION_VERSION == 2
TransactionVersions == {1, 2}

ASSET_ID_LENGTH == 32

MalformedHex == "zz"

Randomness == {"r1", "r2"}

(* napi BigInt: a sign bit and little-endian 64-bit words, as              *)
(* napi_get_value_bigint_words delivers them (no leading zero word, no     *)
(* negative zero).                                                         *)
Words == {0, 1}
BigInts ==
    {[sign_bit |-> FALSE, words |-> <<w>>] : w \in Words}
    \cup {[sign_bit |-> TRUE, words |-> <<w>>] : w \in Words \ {0}}
    \cup {[sign_bit |-> s, words |-> <<w, h>>] :
            s \in BOOLEAN, w \in Words, h \in Words \ {0}}

(* BigInt::get_u64() -> (signed, value, lossless): the first word *)
get_u64(v) == <<v.sign_bit, v.words[1], Len(v.words) = 1>>

(* BigInt::get_i64() -> (value, lossless): the first word with the sign *)
get_i64(v) == <<IF v.sign_bit THEN 0 - v.words[1] ELSE v.words[1], Len(v.words) = 1>>

(* The mathematical value of a BigInt lies in the u64 range *)
FitsU64(v) == ~v.sign_bit /\ Len(v.words) = 1

(* value(f) > bal, for a balance bal that fits 64 bits *)
ExceedsBalance(f, bal) ==
    ~f.sign_bit /\ (Len(f.words) > 1 \/ f.words[1] > bal)

IsNegative(f) == f.sign_bit

(* Results of fallible calls *)
Ok(self, out) == [status |-> "ok", err |-> "none", out |-> out, self |-> self]
Err(kind, self) == [status |-> "err", err |-> kind, out |-> None, self |-> self]
Panic(self) == [status |-> "panic", err |-> "panic", out |-> None, self |-> self]

---------------------------------------------------------------------------
(* Key material: hex strings decode to the key they name; "zz" is          *)
(* malformed hex.                                                          *)

from_hex(h) == IF h = MalformedHex THEN Err("KeyError", None) ELSE Ok(None, h)

PublicAddress_from_hex(h) ==
    IF h = MalformedHex THEN Err("KeyError", None) ELSE Ok(None, <<"addr", h>>)

public_address(key) == <<"addr", key>>

AssetIdentifier_new(bytes) ==
    IF bytes.id \in Assets THEN Ok(None, bytes.id) ELSE Err("ParseError", None)

---------------------------------------------------------------------------
(* ironfish core: ProposedTransaction *)

ProposedTransaction_new(version) ==
    [version |-> version,
     spends |-> <<>>, outputs |-> <<>>, mints |-> <<>>, burns |-> <<>>,
     value_balances |-> [a \in Assets |-> 0],
     expiration |-> 0]

add_output(t, note) ==
    Ok([t EXCEPT !.outputs = Append(@, note),
                 !.value_balances[note.asset] = @ - note.value], None)

add_spend(t, note, witness_ok) ==
    IF ~witness_ok THEN Err("ProofError", t)
    ELSE Ok([t EXCEPT !.spends = Append(@, [value |-> note.value, asset |-> note.asset]),
                      !.value_balances[note.asset] = @ + note.value], None)

add_mint(t, asset, value) ==
    Ok([t EXCEPT !.mints = Append(@, [asset |-> asset, value |-> value, new_owner |-> None]),
                 !.value_balances[asset] = @ + value], None)

add_mint_with_new_owner(t, asset, value, new_owner) ==
    Ok([t EXCEPT !.mints = Append(@, [asset |-> asset, value |-> value,
                                      new_owner |-> Some(new_owner)]),
                 !.value_balances[asset] = @ + value], None)

add_burn(t, asset_id, value) ==
    Ok([t EXCEPT !.burns = Append(@, [asset |-> asset_id, value |-> value]),
                 !.value_balances[asset_id] = @ - value], None)

ProposedTransaction_set_expiration(t, sequence) == [t EXCEPT !.expiration = sequence]

(* change = balance - fee for the native asset, balance for any other *)
change_value(t, asset, fee) ==
    IF asset = NATIVE_ASSET THEN t.value_balances[asset] - fee
    ELSE t.value_balances[asset]

RECURSIVE change_notes(_, _, _, _)
change_notes(t, order, fee, change_address) ==
    IF order = <<>> THEN <<>>
    ELSE LET a == Head(order)
             rest == change_notes(t, Tail(order), fee, change_address)
         IN IF change_value(t, a, fee) > 0
            THEN <<[value |-> change_value(t, a, fee), asset |-> a,
                    owner |-> change_address]>> \o rest
            ELSE rest

RECURSIVE add_outputs(_, _)
add_outputs(t, notes) ==
    IF notes = <<>> THEN t
    ELSE add_outputs(add_output(t, Head(notes)).self, Tail(notes))

HashedFields ==
    {"version", "spends", "outputs", "mints", "burns", "fee", "expiration",
     "randomized_public_key"}

(* The signature hash: a digest over everything but the signature *)
transaction_signature_hash(tx) == [f \in HashedFields |-> tx[f]]

unsigned_of(t, fee, view_key, r) ==
    [version |-> t.version, spends |-> t.spends, outputs |-> t.outputs,
     mints |-> t.mints, burns |-> t.burns, fee |-> fee,
     expiration |-> t.expiration,
     randomized_public_key |-> [ak |-> view_key, r |-> r],
     public_key_randomness |-> r]

ProposedTransaction_build(t, pgk, view_key, ovk, address, fee, change_goes_to, r) ==
    IF \E a \in Assets : change_value(t, a, fee) < 0 THEN Err("BalanceError", t)
    ELSE LET to == IF change_goes_to = None THEN address ELSE change_goes_to[1]
             t2 == add_outputs(t, change_notes(t, AssetOrder, fee, to))
         IN Ok(t2, unsigned_of(t2, fee, view_key, r))

(* The binding signature made with a key over a message *)
signature(signer, msg) == [signer |-> signer, msg |-> msg]

signed_transaction(u, sig) ==
    [version |-> u.version, spends |-> u.spends, outputs |-> u.outputs,
     mints |-> u.mints, burns |-> u.burns, fee |-> u.fee,
     expiration |-> u.expiration,
     randomized_public_key |-> u.randomized_public_key,
     binding_signature |-> sig]

UnsignedTransaction_sign(u, spender_key) ==
    signed_transaction(u, signature([ak |-> spender_key, r |-> u.public_key_randomness],
                                    transaction_signature_hash(u)))

ProposedTransaction_post(t, spender_key, change_goes_to, fee, r) ==
    LET b == ProposedTransaction_build(t, spender_key, spender_key, spender_key,
                                       public_address(spender_key), fee, change_goes_to, r)
    IN IF b.status # "ok" THEN b
       ELSE Ok(b.self, UnsignedTransaction_sign(b.out, spender_key))

ProposedTransaction_post_miners_fee_unchecked(t, spender_key, r) ==
    Ok(t, UnsignedTransaction_sign(
              unsigned_of(t, t.value_balances[NATIVE_ASSET], spender_key, r), spender_key))

ProposedTransaction_post_miners_fee(t, spender_key, r) ==
    IF Len(t.spends) # 0 \/ Len(t.outputs) # 1 \/ Len(t.mints) # 0 \/ Len(t.burns) # 0
    THEN Err("BalanceError", t)
    ELSE ProposedTransaction_post_miners_fee_unchecked(t, spender_key, r)

---------------------------------------------------------------------------
(* ironfish core: serialized forms.  A buffer is a sequence of fixed-size  *)
(* fields: the header (version, the four counts, fee, expiration, public   *)
(* key), then the spend, output, mint and burn records, then the binding   *)
(* signature.                                                              *)

HEADER_FIELDS == 8

Transaction_write(tx) ==
    <<tx.version, Len(tx.spends), Len(tx.outputs), Len(tx.mints), Len(tx.burns),
      tx.fee, tx.expiration, tx.randomized_public_key>>
    \o tx.spends \o tx.outputs \o tx.mints \o tx.burns
    \o <<tx.binding_signature>>

Transaction_read(bytes) ==
    IF Len(bytes) < HEADER_FIELDS THEN Err("ParseError", None)
    ELSE IF bytes[1] \notin TransactionVersions THEN Err("ParseError", None)
    ELSE LET s == HEADER_FIELDS
             o == s + bytes[2]
             m == o + bytes[3]
             b == m + bytes[4]
             e == b + bytes[5]
         IN IF Len(bytes) < e + 1 THEN Err("ParseError", None)
            ELSE Ok(None,
                    [version |-> bytes[1],
                     spends |-> SubSeq(bytes, s + 1, o),
                     outputs |-> SubSeq(bytes, o + 1, m),
                     mints |-> SubSeq(bytes, m + 1, b),
                     burns |-> SubSeq(bytes, b + 1, e),
                     fee |-> bytes[6], expiration |-> bytes[7],
                     randomized_public_key |-> bytes[8],
                     binding_signature |-> bytes[e + 1]])

UnsignedTransaction_write(u) ==
    <<u.version, Len(u.spends), Len(u.outputs), Len(u.mints), Len(u.burns),
      u.fee, u.expiration, u.randomized_public_key>>
    \o u.spends \o u.outputs \o u.mints \o u.burns
    \o <<u.public_key_randomness>>

UnsignedTransaction_read(bytes) ==
    IF Len(bytes) < HEADER_FIELDS THEN Err("ParseError", None)
    ELSE IF bytes[1] \notin TransactionVersions THEN Err("ParseError", None)
    ELSE LET s == HEADER_FIELDS
             o == s + bytes[2]
             m == o + bytes[3]
             b == m + bytes[4]
             e == b + bytes[5]
         IN IF Len(bytes) < e + 1 THEN Err("ParseError", None)
            ELSE Ok(None,
                    [version |-> bytes[1],
                     spends |-> SubSeq(bytes, s + 1, o),
                     outputs |-> SubSeq(bytes, o + 1, m),
                     mints |-> SubSeq(bytes, m + 1, b),
                     burns |-> SubSeq(bytes, b + 1, e),
                     fee |-> bytes[6], expiration |-> bytes[7],
                     randomized_public_key |-> bytes[8],
                     public_key_randomness |-> bytes[e + 1]])

---------------------------------------------------------------------------
(* ironfish core: verification *)

RECURSIVE SumValues(_, _)
SumValues(records, asset) ==
    IF records = <<>> THEN 0
    ELSE (IF Head(records).asset = asset THEN Head(records).value ELSE 0)
         + SumValues(Tail(records), asset)

(* sum(spends) + sum(mints) - sum(outputs) - sum(burns) - fee, per asset *)
Imbalance(tx, asset) ==
    SumValues(tx.spends, asset) + SumValues(tx.mints, asset)
    - SumValues(tx.outputs, asset) - SumValues(tx.burns, asset)
    - (IF asset = NATIVE_ASSET THEN tx.fee ELSE 0)

ValueBalanced(tx) == \A a \in Assets : Imbalance(tx, a) = 0

BindingSignatureVerifies(tx) ==
    tx.binding_signature =
        signature(tx.randomized_public_key, transaction_signature_hash(tx))

verify_transaction(tx) == BindingSignatureVerifies(tx) /\ ValueBalanced(tx)

batch_verify_transactions(txs) ==
    IF \A i \in 1..Len(txs) : verify_transaction(txs[i])
    THEN Ok(None, None) ELSE Err("SignatureError", None)

---------------------------------------------------------------------------
(* ironfish core: hex decoding.  A hex string is a sequence of characters; *)
(* digits of either case are accepted, and the length must be twice the    *)
(* size of the decoded value.                                              *)

LowerHex == <<"0", "1", "2", "3", "4", "5", "6", "7", "8", "9",
              "a", "b", "c", "d", "e", "f">>
UpperHex == <<"0", "1", "2", "3", "4", "5", "6", "7", "8", "9",
              "A", "B", "C", "D", "E", "F">>

hex_to_u8(c) ==
    IF \E i \in 1..16 : LowerHex[i] = c
    THEN Ok(None, (CHOOSE i \in 1..16 : LowerHex[i] = c) - 1)
    ELSE IF \E i \in 1..16 : UpperHex[i] = c
    THEN Ok(None, (CHOOSE i \in 1..16 : UpperHex[i] = c) - 1)
    ELSE Err("ParseError", None)

hex_to_bytes(hex, size) ==
    IF Len(hex) # size * 2 THEN Err("ParseError", None)
    ELSE IF \E i \in 1..Len(hex) : hex_to_u8(hex[i]).status # "ok"
    THEN Err("ParseError", None)
    ELSE Ok(None, [i \in 1..size |->
                    hex_to_u8(hex[2 * i - 1]).out * 16 + hex_to_u8(hex[2 * i]).out])

(* Hex text of a serialized FROST object; <<>> stands for text that is not *)
(* the hex of any such object.                                             *)
bytes_to_hex(bytes) == <<bytes>>
BadHex == <<>>
hex_to_vec_bytes(hex) == IF hex = BadHex THEN Err("ParseError", None) ELSE Ok(None, hex[1])

---------------------------------------------------------------------------
(* ironfish core: FROST objects *)

IDENTIFIER_LEN == 1

Identifier_deserialize(bytes) == Ok(None, bytes[1])

NonceCommitment_deserialize(h) ==
    IF h = MalformedHex THEN Err("ParseError", None) ELSE Ok(None, h)

SigningCommitments_new(hiding, binding) == [hiding |-> hiding, binding |-> binding]

(* BTreeMap: a function; insert overwrites; iteration is in key order *)
EmptyMap == <<>>
Insert(map, k, v) == [x \in DOMAIN map \cup {k} |-> IF x = k THEN v ELSE map[x]]

RECURSIVE SortedKeys(_)
SortedKeys(S) ==
    IF S = {} THEN <<>>
    ELSE LET least == CHOOSE x \in S : \A y \in S : x <= y
         IN <<least>> \o SortedKeys(S \ {least})

SigningPackage_new(commitments, message) ==
    [signing_commitments |-> commitments, message |-> message]

SigningPackage_serialize(p) ==
    LET keys == SortedKeys(DOMAIN p.signing_commitments)
    IN <<p.message>> \o [i \in 1..Len(keys) |-> <<keys[i], p.signing_commitments[keys[i]]>>]

RECURSIVE EntriesToMap(_)
EntriesToMap(entries) ==
    IF entries = <<>> THEN EmptyMap
    ELSE Insert(EntriesToMap(Tail(entries)), Head(entries)[1], Head(entries)[2])

SigningPackage_deserialize(bytes) ==
    IF Len(bytes) < 1 THEN Err("ParseError", None)
    ELSE Ok(None, SigningPackage_new(EntriesToMap(Tail(bytes)), bytes[1]))

(* A public key package: the group's verifying key, its participants and   *)
(* the number of signers its key was split for.                            *)
PublicKeyPackage_deserialize(bytes) == Ok(None, bytes)

(* The share signer `signer` of the group with verifying key `group`       *)
(* computes over `signing_package`                                         *)
SignatureShare(signer, group, signing_package) ==
    [signer |-> signer, group |-> group, signing_package |-> signing_package]

SignatureShare_deserialize(bytes) == Ok(None, bytes)

UnsignedTransaction_signing_package(u, commitments) ==
    Ok(u, SigningPackage_new(commitments, transaction_signature_hash(u)))

(* aggregate: every participant of the signing package has given a share   *)
(* that verifies against the package and the group's key, and the shares   *)
(* of a quorum add up to a signature of the group.                         *)
aggregate(signing_package, signature_shares, public_key_package) ==
    LET signers == DOMAIN signing_package.signing_commitments
    IN IF DOMAIN signature_shares # signers THEN Err("SignatureError", None)
       ELSE IF ~(signers \subseteq public_key_package.identifiers)
       THEN Err("SignatureError", None)
       ELSE IF \E id \in signers :
                 signature_shares[id] #
                    SignatureShare(id, public_key_package.verifying_key, signing_package)
       THEN Err("SignatureError", None)
       ELSE IF Cardinality(signers) < public_key_package.min_signers
       THEN Err("SignatureError", None)
       ELSE Ok(None, signing_package.message)

(* The aggregated signature has to verify against this transaction's own   *)
(* signature hash under the key material the transaction was built for.    *)
(* On success the proofs of the spends and mints move into the posted      *)
(* transaction.                                                            *)
UnsignedTransaction_sign_frost(u, public_key_package, signing_package, signature_shares) ==
    LET group_signature == aggregate(signing_package, signature_shares, public_key_package)
    IN IF group_signature.status # "ok" THEN Err(group_signature.err, u)
       ELSE IF group_signature.out # transaction_signature_hash(u)
       THEN Err("SignatureError", u)
       ELSE IF public_key_package.verifying_key # u.randomized_public_key.ak
       THEN Err("SignatureError", u)
       ELSE Ok([u EXCEPT !.spends = <<>>, !.mints = <<>>],
               signed_transaction(
                   u, signature([ak |-> public_key_package.verifying_key,
                                 r |-> u.public_key_randomness],
                                group_signature.out)))

---------------------------------------------------------------------------
(* transaction.rs: NativeTransaction, the builder binding.  A call returns *)
(* [status, err, out, self]: self is the builder after the call.  The      *)
(* parameter r of the posting calls is the public key randomness the call  *)
(* draws.                                                                  *)

NativeTransaction_new(version) ==
    IF version \in TransactionVersions
    THEN Ok(ProposedTransaction_new(version), None)
    ELSE Err("ParseError", None)

output(self, note) == add_output(self, note)

spend(self, note, witness_ok) == add_spend(self, note, witness_ok)

(* Variant: mint appends the mint before it decodes the new owner *)
mint_eager(self, asset, value, transfer_ownership_to) ==
    LET value_u64 == get_u64(value)[2]
        minted == add_mint(self, asset, value_u64)
    IN IF transfer_ownership_to = None THEN minted
       ELSE LET new_owner == PublicAddress_from_hex(transfer_ownership_to[1])
            IN IF new_owner.status # "ok" THEN Err(new_owner.err, minted.self)
               ELSE add_mint_with_new_owner(self, asset, value_u64, new_owner.out)

mint(self, asset, value, transfer_ownership_to) ==
    LET value_u64 == get_u64(value)[2]
    IN IF transfer_ownership_to = None
       THEN add_mint(self, asset, value_u64)
       ELSE LET new_owner == PublicAddress_from_hex(transfer_ownership_to[1])
            IN IF new_owner.status # "ok" THEN Err(new_owner.err, self)
               ELSE add_mint_with_new_owner(self, asset, value_u64, new_owner.out)

burn(self, asset_id_js_bytes, value) ==
    IF asset_id_js_bytes.len # ASSET_ID_LENGTH THEN Panic(self)
    ELSE LET asset_id == AssetIdentifier_new(asset_id_js_bytes)
         IN IF asset_id.status # "ok" THEN Err(asset_id.err, self)
            ELSE add_burn(self, asset_id.out, get_u64(value)[2])

(* Variant: post_miners_fee without the pristine-builder check *)
post_miners_fee_any(self, spender_hex_key, r) ==
    LET spender_key == from_hex(spender_hex_key)
    IN IF spender_key.status # "ok" THEN Err(spender_key.err, self)
       ELSE LET transaction ==
                    ProposedTransaction_post_miners_fee_unchecked(self, spender_key.out, r)
            IN [transaction EXCEPT !.out = Transaction_write(@)]

post_miners_fee(self, spender_hex_key, r) ==
    LET spender_key == from_hex(spender_hex_key)
    IN IF spender_key.status # "ok" THEN Err(spender_key.err, self)
       ELSE LET transaction == ProposedTransaction_post_miners_fee(self, spender_key.out, r)
            IN IF transaction.status # "ok" THEN transaction
               ELSE [transaction EXCEPT !.out = Transaction_write(@)]

post_miners_fee_unchecked(self, spender_hex_key, r) ==
    LET spender_key == from_hex(spender_hex_key)
    IN IF spender_key.status # "ok" THEN Err(spender_key.err, self)
       ELSE LET transaction ==
                    ProposedTransaction_post_miners_fee_unchecked(self, spender_key.out, r)
            IN IF transaction.status # "ok" THEN transaction
               ELSE [transaction EXCEPT !.out = Transaction_write(@)]

post(self, spender_hex_key, change_goes_to, intended_transaction_fee, r) ==
    LET spender_key == from_hex(spender_hex_key)
        intended_transaction_fee_u64 == get_u64(intended_transaction_fee)[2]
        change_key == IF change_goes_to = None THEN Ok(None, None)
                      ELSE PublicAddress_from_hex(change_goes_to[1])
    IN IF spender_key.status # "ok" THEN Err(spender_key.err, self)
       ELSE IF change_key.status # "ok" THEN Err(change_key.err, self)
       ELSE LET posted_transaction ==
                    ProposedTransaction_post(
                        self, spender_key.out,
                        IF change_goes_to = None THEN None ELSE Some(change_key.out),
                        intended_transaction_fee_u64, r)
            IN IF posted_transaction.status # "ok" THEN posted_transaction
               ELSE [posted_transaction EXCEPT !.out = Transaction_write(@)]

build(self, proof_generation_key_str, view_key_str, outgoing_view_key_str, public_address_str, intended_transaction_fee, change_goes_to, r) ==
    LET view_key == from_hex(view_key_str)
        outgoing_view_key == from_hex(outgoing_view_key_str)
        address == PublicAddress_from_hex(public_address_str)
        proof_generation_key == from_hex(proof_generation_key_str)
        change_address == IF change_goes_to = None THEN Ok(None, None)
                          ELSE PublicAddress_from_hex(change_goes_to[1])
    IN IF view_key.status # "ok" THEN Err(view_key.err, self)
       ELSE IF outgoing_view_key.status # "ok" THEN Err(outgoing_view_key.err, self)
       ELSE IF address.status # "ok" THEN Err(address.err, self)
       ELSE IF proof_generation_key.status # "ok" THEN Err(proof_generation_key.err, self)
       ELSE IF change_address.status # "ok" THEN Err(change_address.err, self)
       ELSE LET unsigned_transaction ==
                    ProposedTransaction_build(
                        self, proof_generation_key.out, view_key.out,
                        outgoing_view_key.out, address.out,
                        get_i64(intended_transaction_fee)[1],
                        IF change_goes_to = None THEN None ELSE Some(change_address.out),
                        r)
            IN IF unsigned_transaction.status # "ok" THEN unsigned_transaction
               ELSE [unsigned_transaction EXCEPT !.out = UnsignedTransaction_write(@)]

(* Variant: set_expiration refuses to lower the expiration *)
set_expiration_raising(self, sequence) ==
    IF sequence < self.expiration THEN self
    ELSE ProposedTransaction_set_expiration(self, sequence)

set_expiration(self, sequence) == ProposedTransaction_set_expiration(self, sequence)

---------------------------------------------------------------------------
(* transaction.rs: NativeTransactionPosted *)

Posted_new(js_bytes) ==
    LET transaction == Transaction_read(js_bytes)
    IN IF transaction.status # "ok" THEN Err(transaction.err, None)
       ELSE Ok([transaction |-> transaction.out], None)

(* Variant: serialize drops the last field of the buffer *)
Posted_serialize_short(self) ==
    Ok(self, SubSeq(Transaction_write(self.transaction), 1,
                    Len(Transaction_write(self.transaction)) - 1))

Posted_serialize(self) == Ok(self, Transaction_write(self.transaction))

notes_length(self) == Ok(self, Len(self.transaction.outputs))

get_note(self, index) ==
    IF index < 0 THEN Err("RangeError", self)
    ELSE IF index + 1 > Len(self.transaction.outputs) THEN Panic(self)
    ELSE Ok(self, self.transaction.outputs[index + 1])

spends_length(self) == Ok(self, Len(self.transaction.spends))

get_spend(self, index) ==
    IF index < 0 THEN Err("RangeError", self)
    ELSE IF index + 1 > Len(self.transaction.spends) THEN Panic(self)
    ELSE Ok(self, self.transaction.spends[index + 1])

Posted_fee(self) == Ok(self, self.transaction.fee)

transaction_signature(self) == Ok(self, self.transaction.binding_signature)

(* Variant: hash digests the whole buffer, signature included *)
Posted_hash_of_buffer(self) == Ok(self, Transaction_write(self.transaction))

Posted_hash(self) == Ok(self, transaction_signature_hash(self.transaction))

Posted_expiration(self) == Ok(self, self.transaction.expiration)

---------------------------------------------------------------------------
(* transaction.rs: verify_transactions *)

RECURSIVE read_transactions(_, _)
read_transactions(serialized_transactions, transactions) ==
    IF serialized_transactions = <<>> THEN Ok(None, transactions)
    ELSE LET tx == Transaction_read(Head(serialized_transactions))
         IN IF tx.status # "ok" THEN Err(tx.err, None)
            ELSE read_transactions(Tail(serialized_transactions),
                                   Append(transactions, tx.out))

(* Variant: verify_transactions verifies the first entry only *)
verify_transactions_first(serialized_transactions) ==
    LET transactions == read_transactions(serialized_transactions, <<>>)
    IN IF transactions.status # "ok" THEN Ok(None, FALSE)
       ELSE IF transactions.out = <<>> THEN Ok(None, TRUE)
       ELSE Ok(None, batch_verify_transactions(<<Head(transactions.out)>>).status = "ok")

(* Variant: verify_transactions passes over the entries that do not parse *)
verify_transactions_skipping(serialized_transactions) ==
    Ok(None, \A i \in 1..Len(serialized_transactions) :
                 LET tx == Transaction_read(serialized_transactions[i])
                 IN tx.status = "ok" => verify_transaction(tx.out))

verify_transactions(serialized_transactions) ==
    LET transactions == read_transactions(serialized_transactions, <<>>)
    IN IF transactions.status # "ok" THEN Ok(None, FALSE)
       ELSE Ok(None, batch_verify_transactions(transactions.out).status = "ok")

---------------------------------------------------------------------------
(* transaction.rs: NativeUnsignedTransaction *)

Unsigned_new(js_bytes) ==
    LET transaction == UnsignedTransaction_read(js_bytes)
    IN IF transaction.status # "ok" THEN Err(transaction.err, None)
       ELSE Ok([transaction |-> transaction.out], None)

Unsigned_serialize(self) == Ok(self, UnsignedTransaction_write(self.transaction))

(* Variant: the randomness is reported together with the proofs still held *)
public_key_randomness_with_proofs(self) ==
    Ok(self, <<self.transaction.public_key_randomness, Len(self.transaction.spends)>>)

public_key_randomness(self) == Ok(self, self.transaction.public_key_randomness)

(* The loop over the commitment map; `order` is the order in which the     *)
(* HashMap yields its keys.                                                *)
RECURSIVE collect_commitments(_, _, _)
collect_commitments(native_commitments, order, commitments) ==
    IF order = <<>> THEN Ok(None, commitments)
    ELSE LET identifier_hex == Head(order)
             commitment_hex == native_commitments[identifier_hex]
             identifier_bytes == hex_to_bytes(identifier_hex, IDENTIFIER_LEN)
             hiding == NonceCommitment_deserialize(commitment_hex.hiding)
             binding == NonceCommitment_deserialize(commitment_hex.binding)
         IN IF identifier_bytes.status # "ok" THEN Err(identifier_bytes.err, None)
            ELSE IF hiding.status # "ok" THEN Err(hiding.err, None)
            ELSE IF binding.status # "ok" THEN Err(binding.err, None)
            ELSE collect_commitments(
                     native_commitments, Tail(order),
                     Insert(commitments,
                            Identifier_deserialize(identifier_bytes.out).out,
                            SigningCommitments_new(hiding.out, binding.out)))

(* Variant: signing_package hands the proofs of the spends over *)
signing_package_draining(self, native_commitments, order) ==
    LET commitments == collect_commitments(native_commitments, order, EmptyMap)
    IN IF commitments.status # "ok" THEN Err(commitments.err, self)
       ELSE LET p == UnsignedTransaction_signing_package(self.transaction, commitments.out)
            IN IF p.status # "ok" THEN Err(p.err, self)
               ELSE Ok([transaction |-> [self.transaction EXCEPT !.spends = <<>>]],
                       bytes_to_hex(SigningPackage_serialize(p.out)))

(* Variant: signing_package refuses a map with a single entry or none *)
signing_package_min(self, native_commitments, order) ==
    LET commitments == collect_commitments(native_commitments, order, EmptyMap)
    IN IF commitments.status # "ok" THEN Err(commitments.err, self)
       ELSE IF Len(order) < 2 THEN Err("SignatureError", self)
       ELSE LET p == UnsignedTransaction_signing_package(self.transaction, commitments.out)
            IN IF p.status # "ok" THEN Err(p.err, self)
               ELSE Ok(self, bytes_to_hex(SigningPackage_serialize(p.out)))

signing_package(self, native_commitments, order) ==
    LET commitments == collect_commitments(native_commitments, order, EmptyMap)
    IN IF commitments.status # "ok" THEN Err(commitments.err, self)
       ELSE LET p == UnsignedTransaction_signing_package(self.transaction, commitments.out)
            IN IF p.status # "ok" THEN Err(p.err, self)
               ELSE Ok(self, bytes_to_hex(SigningPackage_serialize(p.out)))

RECURSIVE collect_shares(_, _, _)
collect_shares(signature_shares_map, order, signature_shares) ==
    IF order = <<>> THEN Ok(None, signature_shares)
    ELSE LET k == Head(order)
             identifier_bytes == hex_to_bytes(k, IDENTIFIER_LEN)
             \* hex_to_bytes(v): the text of a share decodes as a whole or not at all
             share_bytes == hex_to_vec_bytes(signature_shares_map[k])
         IN IF identifier_bytes.status # "ok" THEN Err(identifier_bytes.err, None)
            ELSE IF share_bytes.status # "ok" THEN Err(share_bytes.err, None)
            ELSE collect_shares(
                     signature_shares_map, Tail(order),
                     Insert(signature_shares,
                            Identifier_deserialize(identifier_bytes.out).out,
                            SignatureShare_deserialize(share_bytes.out).out))

(* Variant: sign_frost assembles the transaction whatever aggregation says *)
sign_frost_unverified(self, public_key_package_str, signing_package_str, signature_shares_map, order) ==
    LET pkp_bytes == hex_to_vec_bytes(public_key_package_str)
        package_bytes == hex_to_vec_bytes(signing_package_str)
    IN IF pkp_bytes.status # "ok" THEN Err(pkp_bytes.err, self)
       ELSE IF package_bytes.status # "ok" THEN Err(package_bytes.err, self)
       ELSE LET p == SigningPackage_deserialize(package_bytes.out)
                signature_shares == collect_shares(signature_shares_map, order, EmptyMap)
            IN IF p.status # "ok" THEN Err(p.err, self)
               ELSE IF signature_shares.status # "ok" THEN Err(signature_shares.err, self)
               ELSE Ok(self,
                       Transaction_write(
                           signed_transaction(
                               self.transaction,
                               signature([ak |-> PublicKeyPackage_deserialize(pkp_bytes.out).out.verifying_key,
                                          r |-> self.transaction.public_key_randomness],
                                         p.out.message))))

sign_frost(self, public_key_package_str, signing_package_str, signature_shares_map, order) ==
    LET pkp_bytes == hex_to_vec_bytes(public_key_package_str)
        package_bytes == hex_to_vec_bytes(signing_package_str)
    IN IF pkp_bytes.status # "ok" THEN Err(pkp_bytes.err, self)
       ELSE IF package_bytes.status # "ok" THEN Err(package_bytes.err, self)
       ELSE LET p == SigningPackage_deserialize(package_bytes.out)
                signature_shares == collect_shares(signature_shares_map, order, EmptyMap)
            IN IF p.status # "ok" THEN Err(p.err, self)
               ELSE IF signature_shares.status # "ok" THEN Err(signature_shares.err, self)
               ELSE LET signed_tx ==
                            UnsignedTransaction_sign_frost(
                                self.transaction,
                                PublicKeyPackage_deserialize(pkp_bytes.out).out,
                                p.out, signature_shares.out)
                    IN IF signed_tx.status # "ok" THEN Err(signed_tx.err, self)
                       ELSE Ok([transaction |-> signed_tx.self],
                               Transaction_write(signed_tx.out))

---------------------------------------------------------------------------
(* Arguments the caller supplies *)

Expirations == {0, 1}

Recipient == <<"addr", "r">>
NoteValues == {0, 1}
Notes == [value : NoteValues, asset : Assets, owner : {Recipient}]
NativeNote == [value |-> 1, asset |-> NATIVE_ASSET, owner |-> Recipient]
(* (note, the witness is valid) *)
SpendArgs == {<<NativeNote, TRUE>>, <<NativeNote, FALSE>>}
Zero == [sign_bit |-> FALSE, words |-> <<0>>]
One == [sign_bit |-> FALSE, words |-> <<1>>]
(* (asset, value, transfer_ownership_to) *)
MintArgs ==
    ({"A"} \X BigInts \X {None})
    \cup {<<"A", One, Some("c")>>, <<"A", One, Some(MalformedHex)>>}
(* (asset id buffer, value) *)
BurnArgs ==
    ({[len |-> ASSET_ID_LENGTH, id |-> "A"]} \X BigInts)
    \cup {<<[len |-> ASSET_ID_LENGTH, id |-> NATIVE_ASSET], One>>,
          <<[len |-> ASSET_ID_LENGTH, id |-> "invalid"], One>>,
          <<[len |-> ASSET_ID_LENGTH - 1, id |-> "A"], One>>}
KeyHexes == {"k1", MalformedHex}
(* (spender key, change address, intended fee) *)
PostArgs ==
    ({"k1"} \X {None} \X BigInts)
    \cup {<<"k1", Some("c"), Zero>>, <<"k1", Some("c"), One>>,
          <<MalformedHex, None, Zero>>, <<"k1", Some(MalformedHex), Zero>>}
(* (proof generation key, view key, outgoing view key, public address,
    intended fee, change address) *)
MalformedBuildArgs ==
    {<<MalformedHex, "G1", "G1", "G1", Zero, None>>,
     <<"G1", MalformedHex, "G1", "G1", Zero, None>>,
     <<"G1", "G1", MalformedHex, "G1", Zero, None>>,
     <<"G1", "G1", "G1", MalformedHex, Zero, None>>,
     <<"G1", "G1", "G1", "G1", Zero, Some(MalformedHex)>>}
WellFormedBuildArgs ==
    {<<"G1", "G1", "G1", "G1", f, None>> : f \in BigInts}
    \cup {<<"G1", "G1", "G1", "G1", Zero, Some("c")>>}

Size(t) == Len(t.spends) + Len(t.outputs) + Len(t.mints) + Len(t.burns)

Call(op, c, args) ==
    [op |-> op, status |-> c.status, err |-> c.err, out |-> c.out, args |-> args]

---------------------------------------------------------------------------
(* State machine *)

Init ==
    /\ proposed = Some(NativeTransaction_new(LATEST_TRANSACTION_VERSION).self)
    /\ unsigned = None
    /\ package = None
    /\ posted = None
    /\ origin = None
    /\ res = [op |-> "new", status |-> "ok", err |-> "none", out |-> None,
              args |-> [version |-> LATEST_TRANSACTION_VERSION]]

Output ==
    /\ proposed # None
    /\ Size(proposed[1]) < MaxActions
    /\ \E note \in Notes :
         LET c == output(proposed[1], note)
         IN /\ proposed' = Some(c.self)
            /\ res' = Call("output", c, [note |-> note])
    /\ UNCHANGED <<unsigned, package, posted, origin>>

Spend ==
    /\ proposed # None
    /\ Size(proposed[1]) < MaxActions
    /\ \E a \in SpendArgs :
         LET c == spend(proposed[1], a[1], a[2])
         IN /\ proposed' = Some(c.self)
            /\ res' = Call("spend", c, [note |-> a[1], witness_ok |-> a[2]])
    /\ UNCHANGED <<unsigned, package, posted, origin>>

Mint ==
    /\ proposed # None
    /\ Size(proposed[1]) < MaxActions
    /\ \E a \in MintArgs :
         LET c == mint(proposed[1], a[1], a[2], a[3])
         IN /\ proposed' = Some(c.self)
            /\ res' = Call("mint", c, [asset |-> a[1], value |-> a[2], to |-> a[3]])
    /\ UNCHANGED <<unsigned, package, posted, origin>>

Burn ==
    /\ proposed # None
    /\ Size(proposed[1]) < MaxActions
    /\ \E a \in BurnArgs :
         LET c == burn(proposed[1], a[1], a[2])
         IN /\ proposed' = Some(c.self)
            /\ res' = Call("burn", c, [asset_id |-> a[1], value |-> a[2]])
    /\ UNCHANGED <<unsigned, package, posted, origin>>

SetExpiration ==
    /\ proposed # None
    /\ \E sequence \in Expirations :
         /\ proposed' = Some(set_expiration(proposed[1], sequence))
         /\ res' = [op |-> "set_expiration", status |-> "ok", err |-> "none",
                    out |-> None, args |-> [sequence |-> sequence]]
    /\ UNCHANGED <<unsigned, package, posted, origin>>

PostMinersFee ==
    /\ proposed # None
    /\ Size(proposed[1]) <= MaxActions
    /\ \E key \in KeyHexes, r \in Randomness :
         LET c == post_miners_fee(proposed[1], key, r)
         IN /\ proposed' = Some(c.self)
            /\ res' = Call("post_miners_fee", c, [key |-> key])
    /\ UNCHANGED <<unsigned, package, posted, origin>>

PostMinersFeeUnchecked ==
    /\ proposed # None
    /\ Size(proposed[1]) <= MaxActions
    /\ \E key \in KeyHexes, r \in Randomness :
         LET c == post_miners_fee_unchecked(proposed[1], key, r)
         IN /\ proposed' = Some(c.self)
            /\ res' = Call("post_miners_fee_unchecked", c, [key |-> key])
    /\ UNCHANGED <<unsigned, package, posted, origin>>

Post ==
    /\ proposed # None
    /\ Size(proposed[1]) <= MaxActions
    /\ \E a \in PostArgs, r \in Randomness :
         LET c == post(proposed[1], a[1], a[2], a[3], r)
         IN /\ proposed' = Some(c.self)
            /\ res' = Call("post", c, [key |-> a[1], change |-> a[2], fee |-> a[3]])
    /\ UNCHANGED <<unsigned, package, posted, origin>>

Build ==
    /\ proposed # None
    /\ Size(proposed[1]) <= MaxActions
    /\ \E a \in WellFormedBuildArgs \cup MalformedBuildArgs, r \in Randomness :
         LET c == build(proposed[1], a[1], a[2], a[3], a[4], a[5], a[6], r)
         IN /\ proposed' = Some(c.self)
            /\ res' = Call("build", c,
                           [keys |-> <<a[1], a[2], a[3], a[4]>>, fee |-> a[5],
                            change |-> a[6]])
    /\ UNCHANGED <<unsigned, package, posted, origin>>

(* Buffers a caller can derive from a serialized transaction *)
Truncated(bytes) == SubSeq(bytes, 1, Len(bytes) - 1)
BadVersion(bytes) == [bytes EXCEPT ![1] = 0]
Tampered(bytes) == [bytes EXCEPT ![6] = @ + 1]

PostingOps == {"post", "post_miners_fee", "post_miners_fee_unchecked", "sign_frost"}

Provenance(bytes) ==
    [call |-> res, bytes |-> bytes, package |-> package, unsigned |-> unsigned]

(* new TransactionPosted(bytes): the caller drops the object the bytes     *)
(* came from.                                                              *)
NewPosted ==
    /\ res.op \in PostingOps
    /\ res.status = "ok"
    /\ \E bytes \in {res.out, Truncated(res.out), BadVersion(res.out), Tampered(res.out)} :
         LET c == Posted_new(bytes)
         IN /\ res' = Call("TransactionPosted", c, [bytes |-> bytes])
            /\ IF c.status = "ok"
               THEN /\ posted' = Some(c.self)
                    /\ origin' = Some(Provenance(bytes))
                    /\ proposed' = None
                    /\ unsigned' = None
                    /\ package' = None
               ELSE UNCHANGED <<proposed, unsigned, package, posted, origin>>

PostedSerialize ==
    /\ posted # None
    /\ res' = Call("serialize", Posted_serialize(posted[1]), <<>>)
    /\ UNCHANGED <<proposed, unsigned, package, posted, origin>>

NotesLength ==
    /\ posted # None
    /\ res' = Call("notes_length", notes_length(posted[1]), <<>>)
    /\ UNCHANGED <<proposed, unsigned, package, posted, origin>>

Indexes == (0 - 1)..(MaxActions + 1)

GetNote ==
    /\ posted # None
    /\ \E index \in Indexes :
         res' = Call("get_note", get_note(posted[1], index), [index |-> index])
    /\ UNCHANGED <<proposed, unsigned, package, posted, origin>>

SpendsLength ==
    /\ posted # None
    /\ res' = Call("spends_length", spends_length(posted[1]), <<>>)
    /\ UNCHANGED <<proposed, unsigned, package, posted, origin>>

GetSpend ==
    /\ posted # None
    /\ \E index \in Indexes :
         res' = Call("get_spend", get_spend(posted[1], index), [index |-> index])
    /\ UNCHANGED <<proposed, unsigned, package, posted, origin>>

Fee ==
    /\ posted # None
    /\ res' = Call("fee", Posted_fee(posted[1]), <<>>)
    /\ UNCHANGED <<proposed, unsigned, package, posted, origin>>

TransactionSignature ==
    /\ posted # None
    /\ res' = Call("transaction_signature", transaction_signature(posted[1]), <<>>)
    /\ UNCHANGED <<proposed, unsigned, package, posted, origin>>

Hash ==
    /\ posted # None
    /\ res' = Call("hash", Posted_hash(posted[1]), <<>>)
    /\ UNCHANGED <<proposed, unsigned, package, posted, origin>>

Expiration ==
    /\ posted # None
    /\ res' = Call("expiration", Posted_expiration(posted[1]), <<>>)
    /\ UNCHANGED <<proposed, unsigned, package, posted, origin>>

(* Lists of at most MaxBatch buffers over the serialized posted            *)
(* transaction and buffers derived from it.                                *)
BlobPool(bytes) == {bytes, Truncated(bytes), BadVersion(bytes), Tampered(bytes)}
Lists(S, n) == UNION {[1..k -> S] : k \in 0..n}

VerifyTransactions ==
    /\ posted # None
    /\ \E list \in Lists(BlobPool(Posted_serialize(posted[1]).out), MaxBatch) :
         res' = Call("verify_transactions", verify_transactions(list), [list |-> list])
    /\ UNCHANGED <<proposed, unsigned, package, posted, origin>>

(* new UnsignedTransaction(bytes) *)
NewUnsigned ==
    /\ res.op = "build"
    /\ res.status = "ok"
    /\ \E bytes \in {res.out, Truncated(res.out)} :
         LET c == Unsigned_new(bytes)
         IN /\ res' = Call("UnsignedTransaction", c, [bytes |-> bytes])
            /\ IF c.status = "ok"
               THEN /\ unsigned' = Some(c.self)
                    /\ origin' = Some(Provenance(bytes))
                    /\ proposed' = None
                    /\ UNCHANGED <<package, posted>>
               ELSE UNCHANGED <<proposed, unsigned, package, posted, origin>>

UnsignedSerialize ==
    /\ unsigned # None
    /\ res' = Call("unsigned_serialize", Unsigned_serialize(unsigned[1]), <<>>)
    /\ UNCHANGED <<proposed, unsigned, package, posted, origin>>

PublicKeyRandomness ==
    /\ unsigned # None
    /\ res' = Call("public_key_randomness", public_key_randomness(unsigned[1]), <<>>)
    /\ UNCHANGED <<proposed, unsigned, package, posted, origin>>

---------------------------------------------------------------------------
(* Threshold signing: arguments *)

IdentifierHexes == {<<"0", "a">>, <<"0", "A">>, <<"0", "b">>}
MalformedIdentifierHex == <<"0", "g">>
CommitmentHexes ==
    {[hiding |-> "h1", binding |-> "b1"], [hiding |-> "h2", binding |-> "b2"]}

(* The two groups: the one the transaction was built for and another one *)
Group(name) == [verifying_key |-> name, identifiers |-> {10, 11}, min_signers |-> 2]

Maps(K, V, n) == UNION {[D -> V] : D \in {D \in SUBSET K : Cardinality(D) <= n}}
Orders(D) == {o \in [1..Cardinality(D) -> D] : \A i, j \in 1..Cardinality(D) : o[i] = o[j] => i = j}

CommitmentMaps ==
    Maps(IdentifierHexes, CommitmentHexes, MaxParticipants)
    \cup {[k \in {MalformedIdentifierHex} |-> [hiding |-> "h1", binding |-> "b1"]],
          [k \in {<<"0", "a">>} |-> [hiding |-> MalformedHex, binding |-> "b1"]],
          [k \in {<<"0", "a">>} |-> [hiding |-> "h1", binding |-> MalformedHex]]}

SigningPackage ==
    /\ unsigned # None
    /\ \E native_commitments \in CommitmentMaps :
       \E order \in Orders(DOMAIN native_commitments) :
         LET c == signing_package(unsigned[1], native_commitments, order)
         IN /\ res' = Call("signing_package", c,
                           [native_commitments |-> native_commitments, order |-> order])
            /\ package' = IF c.status = "ok" THEN Some(c.out) ELSE package
            /\ unsigned' = Some(c.self)
    /\ UNCHANGED <<proposed, posted, origin>>

(* The signing package with another transaction's signature hash *)
Foreign(signing_package_str) ==
    LET p == SigningPackage_deserialize(signing_package_str[1]).out
    IN bytes_to_hex(SigningPackage_serialize(
           [p EXCEPT !.message = [@ EXCEPT !["fee"] = @ + 1]]))

(* What a participant can send for the identifier it holds: its share over *)
(* the package, the share of its namesake in the other group, or its share *)
(* over another package.                                                   *)
ShareHexes(id, signing_package_str) ==
    {bytes_to_hex(SignatureShare(id, g, SigningPackage_deserialize(p[1]).out)) :
        g \in {"G1", "G2"}, p \in {signing_package_str}}
    \cup {bytes_to_hex(SignatureShare(
              id, "G1", SigningPackage_deserialize(Foreign(signing_package_str)[1]).out))}

ShareKeys == {<<"0", "a">>, <<"0", "b">>}
IdOf(k) == hex_to_bytes(k, IDENTIFIER_LEN).out[1]

ShareMaps(signing_package_str) ==
    {m \in Maps(ShareKeys, UNION {ShareHexes(IdOf(k), signing_package_str) : k \in ShareKeys},
                MaxParticipants) :
        \A k \in DOMAIN m : m[k] \in ShareHexes(IdOf(k), signing_package_str)}

HonestShares(D, signing_package_str) ==
    [k \in D |-> bytes_to_hex(SignatureShare(
                     IdOf(k), "G1", SigningPackage_deserialize(signing_package_str[1]).out))]

(* (public key package, signing package, signature shares) *)
SignFrostArgs ==
    ({bytes_to_hex(Group("G1")), bytes_to_hex(Group("G2"))}
        \X {package[1]} \X ShareMaps(package[1]))
    \cup {<<bytes_to_hex(Group("G1")), Foreign(package[1]),
            [k \in ShareKeys |-> bytes_to_hex(SignatureShare(
                 IdOf(k), "G1",
                 SigningPackage_deserialize(Foreign(package[1])[1]).out))]>>,
          <<BadHex, package[1], HonestShares(ShareKeys, package[1])>>,
          <<bytes_to_hex(Group("G1")), BadHex, HonestShares(ShareKeys, package[1])>>,
          <<bytes_to_hex(Group("G1")), package[1],
            [k \in {<<"0", "a">>} |-> BadHex]>>,
          <<bytes_to_hex(Group("G1")), package[1],
            [k \in {MalformedIdentifierHex} |-> HonestShares(ShareKeys, package[1])[<<"0", "a">>]]>>}

SignFrost ==
    /\ unsigned # None
    /\ package # None
    /\ \E a \in SignFrostArgs :
       \E order \in Orders(DOMAIN a[3]) :
         LET c == sign_frost(unsigned[1], a[1], a[2], a[3], order)
         IN /\ res' = Call("sign_frost", c,
                           [public_key_package |-> a[1], signing_package |-> a[2],
                            signature_shares |-> a[3], order |-> order])
            /\ unsigned' = Some(c.self)
    /\ UNCHANGED <<proposed, package, posted, origin>>

---------------------------------------------------------------------------
(* Specifications *)

(* The builder, and the objects read back from what it returns *)
Next ==
    \/ Output \/ Spend \/ Mint \/ Burn \/ SetExpiration
    \/ PostMinersFee \/ PostMinersFeeUnchecked \/ Post \/ Build
    \/ NewPosted \/ PostedSerialize \/ Fee \/ Hash \/ Expiration
    \/ NewUnsigned \/ UnsignedSerialize \/ PublicKeyRandomness

Spec == Init /\ [][Next]_vars

(* Threshold signing starts from a builder on which build has just         *)
(* succeeded.                                                              *)
FrostBuilders ==
    {mint(spend(ProposedTransaction_new(LATEST_TRANSACTION_VERSION), NativeNote, TRUE).self,
          "A", One, None).self}

InitFrost ==
    /\ \E b \in FrostBuilders, r \in Randomness,
          a \in {<<"G1", "G1", "G1", "G1", Zero, None>>} :
         LET c == build(b, a[1], a[2], a[3], a[4], a[5], a[6], r)
         IN /\ c.status = "ok"
            /\ proposed = Some(c.self)
            /\ res = Call("build", c,
                          [keys |-> <<a[1], a[2], a[3], a[4]>>, fee |-> a[5],
                           change |-> a[6]])
    /\ unsigned = None
    /\ package = None
    /\ posted = None
    /\ origin = None

NextFrost ==
    \/ NewUnsigned \/ UnsignedSerialize \/ PublicKeyRandomness
    \/ SigningPackage \/ SignFrost
    \/ NewPosted \/ PostedSerialize \/ TransactionSignature \/ Hash

SpecFrost == InitFrost /\ [][NextFrost]_vars

(* Reading back and inspecting what the calls return starts from a state   *)
(* in which post, post_miners_fee, post_miners_fee_unchecked, build or     *)
(* sign_frost has just succeeded.                                          *)
PostedBuilders ==
    FrostBuilders
    \cup {output(ProposedTransaction_new(LATEST_TRANSACTION_VERSION), n).self :
            n \in {m \in Notes : m.asset = NATIVE_ASSET}}

BuildArgs == <<"G1", "G1", "G1", "G1", Zero, None>>
BuildCall(b, r) ==
    build(b, BuildArgs[1], BuildArgs[2], BuildArgs[3], BuildArgs[4],
          BuildArgs[5], BuildArgs[6], r)
BuildRes(b, r) ==
    Call("build", BuildCall(b, r),
         [keys |-> <<BuildArgs[1], BuildArgs[2], BuildArgs[3], BuildArgs[4]>>,
          fee |-> BuildArgs[5], change |-> BuildArgs[6]])

QuorumCommitments ==
    [k \in ShareKeys |-> IF k = <<"0", "a">> THEN [hiding |-> "h1", binding |-> "b1"]
                                              ELSE [hiding |-> "h2", binding |-> "b2"]]
QuorumOrder == <<<<"0", "a">>, <<"0", "b">>>>

AfterPosting ==
    /\ \E b \in PostedBuilders, r \in Randomness :
         \/ LET c == post(b, "k1", None, Zero, r)
            IN /\ c.status = "ok"
               /\ proposed = Some(c.self)
               /\ res = Call("post", c, [key |-> "k1", change |-> None, fee |-> Zero])
         \/ LET c == post_miners_fee(b, "k1", r)
            IN /\ c.status = "ok"
               /\ proposed = Some(c.self)
               /\ res = Call("post_miners_fee", c, [key |-> "k1"])
         \/ LET c == post_miners_fee_unchecked(b, "k1", r)
            IN /\ c.status = "ok"
               /\ proposed = Some(c.self)
               /\ res = Call("post_miners_fee_unchecked", c, [key |-> "k1"])
    /\ unsigned = None
    /\ package = None
    /\ posted = None
    /\ origin = None

(* build -> new UnsignedTransaction -> signing_package -> sign_frost *)
AfterSignFrost ==
    /\ \E b \in FrostBuilders, r \in Randomness :
         LET built == BuildRes(b, r)
             u == Unsigned_new(built.out).self
             p == signing_package(u, QuorumCommitments, QuorumOrder).out
             shares == HonestShares(ShareKeys, p)
             c == sign_frost(u, bytes_to_hex(Group("G1")), p, shares, QuorumOrder)
         IN /\ c.status = "ok"
            /\ proposed = None
            /\ unsigned = Some(c.self)
            /\ package = Some(p)
            /\ origin = Some([call |-> built, bytes |-> built.out,
                              package |-> None, unsigned |-> None])
            /\ res = Call("sign_frost", c,
                          [public_key_package |-> bytes_to_hex(Group("G1")),
                           signing_package |-> p, signature_shares |-> shares,
                           order |-> QuorumOrder])
    /\ posted = None

InitPosted == InitFrost \/ AfterPosting \/ AfterSignFrost

NextPosted ==
    \/ NewPosted \/ PostedSerialize \/ NotesLength \/ GetNote \/ SpendsLength
    \/ GetSpend \/ Fee \/ TransactionSignature \/ Hash \/ Expiration
    \/ VerifyTransactions
    \/ NewUnsigned \/ UnsignedSerialize \/ PublicKeyRandomness

SpecPosted == InitPosted /\ [][NextPosted]_vars

---------------------------------------------------------------------------
(* Properties *)

WellFormedPostKeys(args) ==
    args.key # MalformedHex /\ args.change # Some(MalformedHex)

(* C1: every successful post returns a value-balanced transaction, and     *)
(* post fails with BalanceError, returning nothing, whenever the intended  *)
(* fee exceeds the builder's native balance.                               *)
C1_PostBalancedOrBalanceError ==
    [][(res'.op = "post" /\ proposed # None /\ WellFormedPostKeys(res'.args)) =>
         /\ res'.status = "ok" => ValueBalanced(Transaction_read(res'.out).out)
         /\ ExceedsBalance(res'.args.fee, proposed[1].value_balances[NATIVE_ASSET])
               => /\ res'.status = "err"
                  /\ res'.err = "BalanceError"
                  /\ res'.out = None]_vars

(* Threshold signing: the hex arguments of a sign_frost call all decode *)
WellFormedFrostArgs(a) ==
    /\ a.public_key_package # BadHex
    /\ a.signing_package # BadHex
    /\ \A k \in DOMAIN a.signature_shares :
         /\ hex_to_bytes(k, IDENTIFIER_LEN).status = "ok"
         /\ a.signature_shares[k] # BadHex

(* The public key package of the group the transaction was built for *)
MatchingPublicKeyPackage(self) ==
    bytes_to_hex(Group(self.transaction.randomized_public_key.ak))

(* signing_package, called on this transaction, has produced this package *)
DerivedBySigningPackage(self, signing_package_str) ==
    \E m \in CommitmentMaps : \E o \in Orders(DOMAIN m) :
        LET c == signing_package(self, m, o)
        IN c.status = "ok" /\ c.out = signing_package_str

Signers(signing_package_str) ==
    DOMAIN SigningPackage_deserialize(signing_package_str[1]).out.signing_commitments

(* The share the signer named k of the transaction's group computes over   *)
(* the signing package                                                     *)
CorrectShare(self, signing_package_str, k) ==
    bytes_to_hex(SignatureShare(IdOf(k), self.transaction.randomized_public_key.ak,
                                SigningPackage_deserialize(signing_package_str[1]).out))

(* N commitments, N shares: one share for each signer of the package *)
OneSharePerSigner(a) ==
    /\ {IdOf(k) : k \in DOMAIN a.signature_shares} = Signers(a.signing_package)
    /\ Cardinality(DOMAIN a.signature_shares) = Cardinality(Signers(a.signing_package))

(* C2: sign_frost, given the signing package that signing_package derived  *)
(* for the transaction from the commitments of a quorum of N participants, *)
(* the matching public key package and the N correctly computed shares,    *)
(* returns a posted transaction whose binding signature verifies; with     *)
(* even one share that is not the signer's share over that package for the *)
(* transaction's group it fails with SignatureError and returns nothing;   *)
(* whatever it returns carries a verifying binding signature.              *)
C2_ThresholdSigning ==
    [][(res'.op = "sign_frost" /\ unsigned # None /\ package # None
            /\ WellFormedFrostArgs(res'.args)) =>
         LET a == res'.args
             self == unsigned[1]
             correct == \A k \in DOMAIN a.signature_shares :
                           a.signature_shares[k] = CorrectShare(self, package[1], k)
         IN /\ (/\ correct
                 /\ a.public_key_package = MatchingPublicKeyPackage(self)
                 /\ a.signing_package = package[1]
                 /\ OneSharePerSigner(a)
                 /\ Cardinality(Signers(package[1])) >= Group("G1").min_signers
                 /\ DerivedBySigningPackage(self, package[1]))
                 => /\ res'.status = "ok"
                    /\ Posted_new(res'.out).status = "ok"
                    /\ BindingSignatureVerifies(Posted_new(res'.out).self.transaction)
            /\ (~correct /\ DOMAIN a.signature_shares # {})
                 => /\ res'.status = "err"
                    /\ res'.err = "SignatureError"
                    /\ res'.out = None
            /\ res'.status = "ok"
                 => BindingSignatureVerifies(Posted_new(res'.out).self.transaction)]_vars

(* sign_frost has aggregated the correct shares of two signers *)
C2_SignedByQuorum ==
    /\ res.op = "sign_frost"
    /\ res.status = "ok"
    /\ Cardinality(DOMAIN res.args.signature_shares) = 2
    /\ res.args.signing_package = package[1]
    /\ BindingSignatureVerifies(Posted_new(res.out).self.transaction)

(* C3: verify_transactions returns false, as a value, for every list that  *)
(* holds a buffer that does not parse as a posted transaction, wherever    *)
(* that buffer stands and whatever the other entries are.                  *)
C3_FailClosedOnParsing ==
    (/\ res.op = "verify_transactions"
     /\ \E i \in 1..Len(res.args.list) : Posted_new(res.args.list[i]).status # "ok")
        => res.status = "ok" /\ res.out = FALSE

(* a valid transaction first, a buffer that does not parse second *)
C3_UnparseableAfterValid ==
    /\ res.op = "verify_transactions"
    /\ Len(res.args.list) = 2
    /\ verify_transactions(<<res.args.list[1]>>).out = TRUE
    /\ Posted_new(res.args.list[2]).status # "ok"
    /\ res.out = FALSE

(* The builder holds exactly one output and nothing else *)
Pristine(t) ==
    Len(t.spends) = 0 /\ Len(t.outputs) = 1 /\ Len(t.mints) = 0 /\ Len(t.burns) = 0

ReadFromReturnedBytes ==
    /\ posted # None
    /\ origin # None
    /\ origin[1].call.op \in PostingOps
    /\ origin[1].bytes = origin[1].call.out

(* The digest the binding signature in a buffer was made over *)
SignedDigest(bytes) == Transaction_read(bytes).out.binding_signature.msg

(* C5: hash() of a posted transaction is the digest that was signed: for a *)
(* transaction sign_frost returned, the signature hash in the signing      *)
(* package signing_package produced for the unsigned transaction; for a    *)
(* transaction post returned and read back, the hash post signed; and a    *)
(* repeated hash() returns the same value.                                 *)
C5_HashIsSignedDigest ==
    [][res'.op = "hash" =>
         /\ (ReadFromReturnedBytes /\ origin[1].call.op = "sign_frost")
               => res'.out =
                    SigningPackage_deserialize(origin[1].package[1][1]).out.message
         /\ ReadFromReturnedBytes => res'.out = SignedDigest(origin[1].call.out)
         /\ res.op = "hash" => res'.out = res.out]_vars

(* hash() has been called on a transaction read back from sign_frost *)
C5_HashOfThresholdSigned ==
    /\ res.op = "hash"
    /\ ReadFromReturnedBytes
    /\ origin[1].call.op = "sign_frost"
    /\ res.out = SigningPackage_deserialize(origin[1].package[1][1]).out.message
    /\ Len(posted[1].transaction.spends) > 0

(* The hex strings of a commitment map all decode *)
WellFormedCommitments(m) ==
    \A k \in DOMAIN m :
        /\ hex_to_bytes(k, IDENTIFIER_LEN).status = "ok"
        /\ m[k].hiding # MalformedHex
        /\ m[k].binding # MalformedHex

(* The (identifier, commitment) pairs a commitment map holds *)
Pairs(m) == {<<IdOf(k), m[k]>> : k \in DOMAIN m}

(* The participants of a signing package, in the order they are written *)
Participants(signing_package_str) ==
    [i \in 1..(Len(signing_package_str[1]) - 1) |-> signing_package_str[1][i + 1][1]]

(* C6: signing_package is deterministic and insensitive to the iteration   *)
(* order of its input: any map holding the same (identifier, commitment)   *)
(* pairs, iterated in any order, yields the same package for the same      *)
(* unsigned transaction, with the participants sorted by identifier.       *)
C6_OrderInsensitive ==
    (/\ res.op = "signing_package"
     /\ unsigned # None
     /\ WellFormedCommitments(res.args.native_commitments))
        => /\ res.status = "ok"
           /\ \A i, j \in 1..Len(Participants(res.out)) :
                 i < j => Participants(res.out)[i] < Participants(res.out)[j]
           /\ \A m \in CommitmentMaps :
                 (WellFormedCommitments(m) /\ Pairs(m) = Pairs(res.args.native_commitments))
                    => \A o \in Orders(DOMAIN m) :
                         signing_package(unsigned[1], m, o).out = res.out

(* The number of signers the group's key was split for *)
Threshold(public_key_package_str) ==
    PublicKeyPackage_deserialize(hex_to_vec_bytes(public_key_package_str).out).out.min_signers

(* C7: signing_package enforces no minimum participant count: it succeeds  *)
(* for every well-formed commitment map, the ones with fewer entries than  *)
(* the signing threshold included; the shortfall is reported at the        *)
(* aggregation step, where sign_frost fails for a signing package with     *)
(* fewer participants than the threshold.                                  *)
C7_LateQuorumFailure ==
    /\ (/\ res.op = "signing_package"
         /\ WellFormedCommitments(res.args.native_commitments))
           => /\ res.status = "ok"
              /\ package = Some(res.out)
    /\ (/\ res.op = "sign_frost"
         /\ WellFormedFrostArgs(res.args)
         /\ Cardinality(Signers(res.args.signing_package))
               < Threshold(res.args.public_key_package))
           => /\ res.status = "err"
              /\ res.err = "SignatureError"
              /\ res.out = None

(* sign_frost has refused the correct share of a single signer, given with *)
(* the package that signing_package made from that signer's commitment     *)
C7_ShortQuorumRefused ==
    /\ res.op = "sign_frost"
    /\ unsigned # None
    /\ package # None
    /\ res.args.signing_package = package[1]
    /\ res.args.public_key_package = MatchingPublicKeyPackage(unsigned[1])
    /\ Cardinality(Signers(package[1])) = 1
    /\ DOMAIN res.args.signature_shares = {<<"0", "a">>}
    /\ res.args.signature_shares[<<"0", "a">>]
          = CorrectShare(unsigned[1], package[1], <<"0", "a">>)
    /\ res.status = "err"
    /\ res.err = "SignatureError"

(* What the accessors of a posted transaction return *)
Observed(self) ==
    [spends_length |-> spends_length(self).out,
     notes_length |-> notes_length(self).out,
     fee |-> Posted_fee(self).out,
     expiration |-> Posted_expiration(self).out,
     transaction_signature |-> transaction_signature(self).out,
     hash |-> Posted_hash(self).out]

(* C8: the bytes post, post_miners_fee or sign_frost returned, read by the *)
(* TransactionPosted constructor and serialized again, are the same bytes, *)
(* and reading those again gives an equal posted transaction (same counts, *)
(* fee, expiration, binding signature and hash); the bytes build returned  *)
(* come back unchanged from the UnsignedTransaction constructor followed   *)
(* by serialize.                                                           *)
C8_RoundTrip ==
    /\ (/\ res.op = "TransactionPosted"
         /\ res.status = "ok"
         /\ ReadFromReturnedBytes
         /\ res.args.bytes = origin[1].bytes)
           => /\ Posted_serialize(posted[1]).out = res.args.bytes
              /\ Posted_new(Posted_serialize(posted[1]).out).status = "ok"
              /\ Posted_new(Posted_serialize(posted[1]).out).self = posted[1]
              /\ Observed(Posted_new(Posted_serialize(posted[1]).out).self)
                    = Observed(posted[1])
    /\ (/\ res.op = "serialize"
         /\ ReadFromReturnedBytes)
           => res.out = origin[1].bytes
    /\ (/\ res.op = "UnsignedTransaction"
         /\ res.status = "ok"
         /\ origin # None
         /\ origin[1].call.op = "build"
         /\ res.args.bytes = origin[1].call.out)
           => /\ Unsigned_serialize(unsigned[1]).out = res.args.bytes
              /\ Unsigned_new(Unsigned_serialize(unsigned[1]).out).self = unsigned[1]

(* a transaction with a spend, a mint and two outputs, returned by post,   *)
(* has been read back and serialized                                       *)
C8_PostedReadBack ==
    /\ res.op = "serialize"
    /\ ReadFromReturnedBytes
    /\ origin[1].call.op = "post"
    /\ Len(posted[1].transaction.spends) = 1
    /\ Len(posted[1].transaction.outputs) = 2
    /\ res.out = origin[1].bytes

(* C9: build performs the same balancing and change logic as post: on the  *)
(* same builder, with the same intended fee and change address, build      *)
(* succeeds exactly when post succeeds, both fail with the same error, and *)
(* the unsigned transaction carries the fee and the outputs (change        *)
(* included) of the posted transaction post returns.                       *)
C9_BuildBalancesAsPost ==
    [][(res'.op = "post" /\ proposed # None /\ WellFormedPostKeys(res'.args)) =>
         \A r \in Randomness :
            LET a == res'.args
                b == build(proposed[1], a.key, a.key, a.key, a.key, a.fee, a.change, r)
            IN /\ b.status = res'.status
               /\ b.err = res'.err
               /\ res'.status = "ok" =>
                     /\ Unsigned_new(b.out).self.transaction.fee
                           = Posted_new(res'.out).self.transaction.fee
                     /\ Unsigned_new(b.out).self.transaction.outputs
                           = Posted_new(res'.out).self.transaction.outputs]_vars

(* The mathematical value of an intended fee in the unsigned 64-bit range *)
FeeValue(f) == f.words[1]

(* C10: the intended fee given to post has to be non-negative and is the   *)
(* fee of the result: after a successful post(key, change, f), fee() of    *)
(* the returned transaction is f; no post with a negative f, or an f       *)
(* outside the 64-bit range, returns a transaction.                        *)
C10_FeeIsIntendedFee ==
    (res.op = "post" /\ res.status = "ok")
        => /\ FitsU64(res.args.fee)
           /\ Posted_fee(Posted_new(res.out).self).out = FeeValue(res.args.fee)

(* The other arguments of a mint or burn call are well formed *)
WellFormedMintOrBurn(call) ==
    \/ call.op = "mint" /\ call.args.to # Some(MalformedHex)
    \/ /\ call.op = "burn"
       /\ call.args.asset_id.len = ASSET_ID_LENGTH
       /\ call.args.asset_id.id \in Assets

(* The action a mint or burn call has appended last *)
LastAction(t, op) ==
    IF op = "mint" THEN t.mints[Len(t.mints)] ELSE t.burns[Len(t.burns)]

(* C11: mint and burn reject a value outside the unsigned 64-bit range     *)
(* (negative, or 2^64 and more) with ValueError, appending no action and   *)
(* leaving the value balance unchanged; for a value inside the range the   *)
(* appended action records exactly that value.                             *)
C11_MintBurnValueRange ==
    [][(proposed # None /\ res'.op \in {"mint", "burn"} /\ WellFormedMintOrBurn(res')) =>
         /\ ~FitsU64(res'.args.value)
               => /\ res'.status = "err"
                  /\ res'.err = "ValueError"
                  /\ proposed' = proposed
         /\ FitsU64(res'.args.value)
               => /\ res'.status = "ok"
                  /\ LastAction(proposed'[1], res'.op).value = FeeValue(res'.args.value)
                  /\ Len(proposed'[1].mints) + Len(proposed'[1].burns)
                        = Len(proposed[1].mints) + Len(proposed[1].burns) + 1]_vars

(* The length the index of a random-access call is measured against *)
LengthFor(op, self) ==
    IF op = "get_note" THEN notes_length(self).out ELSE spends_length(self).out

(* C12: get_note(i) and get_spend(i) succeed for every index from 0 up to, *)
(* not including, notes_length() and spends_length(); for every other      *)
(* index the call fails with RangeError, returned as an error value.       *)
C12_RandomAccess ==
    (posted # None /\ res.op \in {"get_note", "get_spend"}) =>
        IF 0 <= res.args.index /\ res.args.index < LengthFor(res.op, posted[1])
        THEN res.status = "ok"
        ELSE res.status = "err" /\ res.err = "RangeError"

(* The entry parses as a posted transaction and that transaction verifies *)
ParsesAndVerifies(bytes) ==
    /\ Posted_new(bytes).status = "ok"
    /\ verify_transaction(Posted_new(bytes).self.transaction)

Reorderings(list) ==
    {[i \in 1..Len(list) |-> list[o[i]]] : o \in Orders(1..Len(list))}

(* C13: verify_transactions returns true exactly when every entry parses   *)
(* and every parsed transaction passes verification, whatever the order of *)
(* the entries; on the empty list it returns true.                         *)
C13_GlobalAnd ==
    res.op = "verify_transactions" =>
        /\ res.status = "ok"
        /\ res.out = (\A i \in 1..Len(res.args.list) : ParsesAndVerifies(res.args.list[i]))
        /\ \A list \in Reorderings(res.args.list) : verify_transactions(list).out = res.out
        /\ res.args.list = <<>> => res.out = TRUE

(* two entries that both parse, the second of which fails verification *)
C13_SecondFailsVerification ==
    /\ res.op = "verify_transactions"
    /\ Len(res.args.list) = 2
    /\ ParsesAndVerifies(res.args.list[1])
    /\ Posted_new(res.args.list[2]).status = "ok"
    /\ ~ParsesAndVerifies(res.args.list[2])
    /\ res.out = FALSE

(* C14: public_key_randomness() of an unsigned transaction returns the     *)
(* same value on every call: signing_package and sign_frost do not change  *)
(* it, it survives serialize followed by the constructor, it is the value  *)
(* the bytes build returned carry, and it is the randomness of the posted  *)
(* transaction sign_frost returns.                                         *)
C14_RandomnessStable ==
    [][/\ (unsigned # None /\ unsigned' # None)
            => public_key_randomness(unsigned'[1]).out
                 = public_key_randomness(unsigned[1]).out
       /\ (res'.op = "public_key_randomness" /\ origin # None)
            => res'.out = public_key_randomness(Unsigned_new(origin[1].bytes).self).out
       /\ res'.op = "unsigned_serialize"
            => public_key_randomness(Unsigned_new(res'.out).self).out
                 = public_key_randomness(unsigned[1]).out
       /\ (res'.op = "sign_frost" /\ res'.status = "ok")
            => Posted_new(res'.out).self.transaction.randomized_public_key.r
                 = public_key_randomness(unsigned[1]).out]_vars

(* public_key_randomness() has been called after a successful sign_frost *)
C14_RandomnessAfterSignFrost ==
    /\ res.op = "public_key_randomness"
    /\ unsigned # None
    /\ Len(unsigned[1].transaction.spends) = 0
    /\ res.out \in Randomness

BuilderOps == {"output", "spend", "mint", "burn", "post", "build"}

(* C15: once post, post_miners_fee or build has succeeded on a builder, no *)
(* further output, spend, mint, burn, post or build call on that builder   *)
(* is accepted.                                                            *)
C15_OneWayBuilder ==
    [][(/\ proposed # None
        /\ res.op \in {"post", "post_miners_fee", "build"}
        /\ res.status = "ok"
        /\ res'.op \in BuilderOps)
          => res'.status # "ok"]_vars

(* What a caller can observe of an unsigned transaction *)
ObservedUnsigned(self) ==
    [serialize |-> Unsigned_serialize(self).out,
     public_key_randomness |-> public_key_randomness(self).out]

(* The sign_frost call just made, made again on the transaction as it is now *)
SignFrostAgain(self, a) ==
    sign_frost(self, a.public_key_package, a.signing_package, a.signature_shares, a.order)

(* C16, as stated: neither signing_package nor sign_frost changes what     *)
(* serialize() and public_key_randomness() of the unsigned transaction     *)
(* return, and a second sign_frost with the same arguments returns the     *)
(* same bytes as the first.                                                *)
C16_PureSigning ==
    [][(unsigned # None /\ res'.op \in {"signing_package", "sign_frost"}) =>
         /\ ObservedUnsigned(unsigned'[1]) = ObservedUnsigned(unsigned[1])
         /\ res'.status = "ok" /\ res'.op = "sign_frost"
               => /\ SignFrostAgain(unsigned'[1], res'.args).status = "ok"
                  /\ SignFrostAgain(unsigned'[1], res'.args).out = res'.out]_vars

(* C16, amended: signing_package and a failed sign_frost leave the         *)
(* observable state of the unsigned transaction unchanged, so a failed     *)
(* sign_frost does not prevent a later successful one; a successful        *)
(* sign_frost keeps public_key_randomness() but moves the spends and mints *)
(* out of the unsigned transaction, so that serialize() changes and the    *)
(* same sign_frost call made again does not return the same posted         *)
(* transaction whenever there was a spend or a mint, and returns the same  *)
(* bytes otherwise.                                                        *)
C16_SigningEffects ==
    [][(unsigned # None /\ res'.op \in {"signing_package", "sign_frost"}) =>
         LET before == unsigned[1].transaction
             after == unsigned'[1].transaction
             proofs == Len(before.spends) + Len(before.mints)
             again == SignFrostAgain(unsigned'[1], res'.args)
         IN /\ (res'.op = "signing_package" \/ res'.status # "ok")
                 => /\ unsigned' = unsigned
                    /\ ObservedUnsigned(unsigned'[1]) = ObservedUnsigned(unsigned[1])
            /\ (res'.op = "sign_frost" /\ res'.status # "ok")
                 => SignFrostAgain(unsigned'[1], res'.args).status = res'.status
            /\ (res'.op = "sign_frost" /\ res'.status = "ok")
                 => /\ public_key_randomness(unsigned'[1]).out
                         = public_key_randomness(unsigned[1]).out
                    /\ after = [before EXCEPT !.spends = <<>>, !.mints = <<>>]
                    /\ proofs > 0
                         => /\ Unsigned_serialize(unsigned'[1]).out
                                  # Unsigned_serialize(unsigned[1]).out
                            /\ (again.status # "ok" \/ again.out # res'.out)
                    /\ proofs = 0
                         => again.status = "ok" /\ again.out = res'.out]_vars

(* sign_frost has succeeded and the unsigned transaction no longer         *)
(* serializes to the bytes it was read from                                *)
C16_ProofsMoved ==
    /\ res.op = "sign_frost"
    /\ res.status = "ok"
    /\ unsigned # None
    /\ origin # None
    /\ Len(Unsigned_new(origin[1].bytes).self.transaction.spends) > 0
    /\ Len(unsigned[1].transaction.spends) = 0
    /\ Unsigned_serialize(unsigned[1]).out # origin[1].bytes

(* The call was given a malformed key, address or asset identifier *)
MalformedInput(call) ==
    \/ /\ call.op = "burn"
       /\ (call.args.asset_id.len # ASSET_ID_LENGTH \/ call.args.asset_id.id \notin Assets)
    \/ call.op = "mint" /\ call.args.to = Some(MalformedHex)
    \/ call.op = "post" /\ ~WellFormedPostKeys(call.args)
    \/ /\ call.op = "build"
       /\ (\/ \E i \in 1..4 : call.args.keys[i] = MalformedHex
           \/ call.args.change = Some(MalformedHex))

(* C17: a call given malformed input returns a tagged error (ParseError or *)
(* KeyError): burn with an asset identifier buffer of the wrong length,    *)
(* and post, build and mint with malformed key or address hex; no call     *)
(* ends in an unstructured fault.                                          *)
C17_TaggedErrors ==
    /\ res.status # "panic"
    /\ MalformedInput(res) => res.status = "err" /\ res.err \in {"ParseError", "KeyError"}

(* The expiration of the transaction a successful post or build returned *)
ReturnedExpiration(call) ==
    IF call.op = "build" THEN Unsigned_new(call.out).self.transaction.expiration
    ELSE Posted_expiration(Posted_new(call.out).self).out

(* C18: set_expiration overwrites the expiration with its argument, with   *)
(* no validation, and changes nothing else of the builder; no other        *)
(* builder call changes the expiration; so the transaction post or build   *)
(* returns expires at the argument of the last set_expiration call.        *)
C18_SetExpiration ==
    [][(proposed # None /\ proposed' # None) =>
         /\ res'.op = "set_expiration"
               => /\ res'.status = "ok"
                  /\ proposed'[1] = [proposed[1] EXCEPT !.expiration = res'.args.sequence]
         /\ res'.op # "set_expiration"
               => proposed'[1].expiration = proposed[1].expiration
         /\ (res'.op \in {"post", "build"} /\ res'.status = "ok")
               => ReturnedExpiration(res') = proposed[1].expiration]_vars

(* post has returned a transaction on a builder whose expiration had been  *)
(* set to 1                                                                *)
C18_PostedWithExpiration ==
    /\ res.op = "post"
    /\ res.status = "ok"
    /\ ReturnedExpiration(res) = 1
    /\ Len(Posted_new(res.out).self.transaction.outputs) > 0

(* C19: a builder call that returns an error leaves the builder as it was: *)
(* the spends, outputs, mints, burns, value balance and expiration after   *)
(* the failed call are those before it, so a retry starts from the same    *)
(* builder.                                                                *)
C19_ErrorLeavesBuilder ==
    [][(/\ proposed # None
        /\ proposed' # None
        /\ res'.op \in BuilderOps \cup {"post_miners_fee"}
        /\ res'.status = "err")
          => proposed' = proposed]_vars

(* post has failed with BalanceError on a builder that holds actions, and  *)
(* mint, burn and build fail on it for malformed input without changing it *)
C19_FailedPostOnFilledBuilder ==
    /\ res.op = "post"
    /\ res.status = "err"
    /\ res.err = "BalanceError"
    /\ proposed # None
    /\ Size(proposed[1]) > 0
    /\ mint(proposed[1], "A", One, Some(MalformedHex)).self = proposed[1]
    /\ mint(proposed[1], "A", One, Some(MalformedHex)).status = "err"
    /\ burn(proposed[1], [len |-> ASSET_ID_LENGTH, id |-> "invalid"], One).self = proposed[1]
    /\ burn(proposed[1], [len |-> ASSET_ID_LENGTH, id |-> "invalid"], One).status = "err"

(* C20: signing_package drops no participant: a package it returns holds   *)
(* one commitment for each key of the input map, the commitment given for  *)
(* that key, so the package has as many participants as the map has keys.  *)
C20_NoParticipantDropped ==
    (res.op = "signing_package" /\ res.status = "ok")
        => LET m == res.args.native_commitments
               held == SigningPackage_deserialize(res.out[1]).out.signing_commitments
           IN /\ Cardinality(DOMAIN held) = Cardinality(DOMAIN m)
              /\ \A k \in DOMAIN m :
                    /\ IdOf(k) \in DOMAIN held
                    /\ held[IdOf(k)] = SigningCommitments_new(m[k].hiding, m[k].binding)

====
